---------------------------- MODULE Spec2Model ----------------------------
(***************************************************************************)
(* A model of build.py of ResourceCalculator: the resource list cache,     *)
(* the directory timestamp walks, plugin publication, the recipe           *)
(* normalizer, simple-name derivation, the copy producer and main.         *)
(*                                                                         *)
(* Each component has its own specification (SpecCache, SpecPlugins, ...). *)
(* The variables of the components a specification does not exercise stay  *)
(* at their idle values.                                                   *)
(***************************************************************************)
EXTENDS Integers, Sequences, FiniteSets, TLC

VARIABLES
    clock,                  \* the filesystem's clock (logical time)
    \* ---- resource list cache
    fileTime,               \* os.path.getctime of each resources.yaml
    fileContent,            \* what each resources.yaml holds
    resource_list_cache,    \* the global dict filepath -> CachedResourceList
    lastLoad,               \* the last load_resource_list call and its result
    \* ---- directory trees and plugin publication
    present,                \* the files of the plugin source tree that exist
    ctime,                  \* os.path.getctime of every node of the tree
    build_py_ctime,         \* os.path.getctime("build.py")
    out_exists,             \* os.path.exists(plugin_output_folder)
    out_ctime,              \* os.path.getctime(plugin_output_folder)
    out_copy,               \* per file: the ctime of the source it was copied from
    src_exists,             \* os.path.exists(plugin_source_folder)
    FLAG_skip_plugins,
    lastPublish,            \* the last publish_calculator_plugins call
    oldest_result,          \* the last get_oldest_modified_time call
    \* ---- main
    calc_src_time,          \* per calculator: newest input time
    calc_out_time,          \* per calculator: output time, 0 when missing
    index_time,             \* output/index.html time, 0 when missing
    FLAG_skip_index,
    lastMain,               \* the last run of main
    \* ---- recipe normalizer
    resources,              \* resource name -> sequence of recipes
    requirement_groups,     \* group name -> sequence of members
    parsed,                 \* the resources as parsed, before the pass
    phase,                  \* "parsed" | "expanded" | "filled" | "idle"
    \* ---- get_simple_name
    resource_name,          \* the display name, a sequence of characters
    custom_simplename,      \* the override, "" when not set
    simple_name,            \* the last get_simple_name result
    \* ---- producer_copyfile
    files,                  \* path -> content, Absent when missing
    lastCopy                \* the last producer_copyfile call, until a file changes

cacheVars  == <<fileTime, fileContent, resource_list_cache, lastLoad>>
treeVars   == <<present, ctime, build_py_ctime, out_exists, out_ctime, out_copy,
                src_exists, FLAG_skip_plugins, lastPublish, oldest_result>>
mainVars   == <<calc_src_time, calc_out_time, index_time, FLAG_skip_index, lastMain>>
normVars   == <<resources, requirement_groups, parsed, phase>>
nameVars   == <<resource_name, custom_simplename, simple_name>>
copyVars   == <<files, lastCopy>>
vars       == <<clock, cacheVars, treeVars, mainVars, normVars, nameVars, copyVars>>

\* The clock stops at MaxClock: every timestamped event takes one tick.
MaxClock == 5

Max(S) == CHOOSE x \in S : \A y \in S : y <= x
Min(S) == CHOOSE x \in S : \A y \in S : x <= y

(***************************************************************************)
(* Idle values of each component                                           *)
(***************************************************************************)
NoLoad == [called |-> FALSE, path |-> "", hit |-> FALSE, cachedTimestamp |-> 0,
           mtime |-> 0, content |-> "", reparsed |-> FALSE,
           resource_list |-> [source |-> ""], errors |-> <<>>]

CacheIdle ==
    /\ fileTime = <<>>
    /\ fileContent = <<>>
    /\ resource_list_cache = <<>>
    /\ lastLoad = NoLoad

NoPublish == [called |-> FALSE, enabled |-> FALSE, out_existed |-> FALSE,
              files_older |-> FALSE, build_unchanged |-> FALSE,
              touched |-> {}, copied |-> FALSE]

NoOldest == [called |-> FALSE, path |-> "", file_times |-> {}, result |-> 0]

TreeIdle ==
    /\ present = {}
    /\ ctime = <<>>
    /\ build_py_ctime = 0
    /\ out_exists = FALSE
    /\ out_ctime = 0
    /\ out_copy = <<>>
    /\ src_exists = FALSE
    /\ FLAG_skip_plugins = FALSE
    /\ lastPublish = NoPublish
    /\ oldest_result = NoOldest

NoMain == [called |-> FALSE, limit_files |-> <<>>, calculator_page_sublist |-> <<>>,
           updated |-> {}, index_regenerated |-> FALSE]

MainIdle ==
    /\ calc_src_time = <<>>
    /\ calc_out_time = <<>>
    /\ index_time = 0
    /\ FLAG_skip_index = FALSE
    /\ lastMain = NoMain

NormIdle ==
    /\ resources = <<>>
    /\ requirement_groups = <<>>
    /\ parsed = <<>>
    /\ phase = "idle"

NoName == [called |-> FALSE, result |-> <<>>]

NameIdle ==
    /\ resource_name = <<>>
    /\ custom_simplename = <<>>
    /\ simple_name = NoName

NoCopy == [called |-> FALSE, input_file |-> "", output_files |-> <<>>,
           raised |-> "", before |-> <<>>, after |-> <<>>]

CopyIdle ==
    /\ files = <<>>
    /\ lastCopy = NoCopy

(***************************************************************************)
(* Resource list cache: load_resource_list                                 *)
(***************************************************************************)
Paths == {"resource_lists/a/resources.yaml", "resource_lists/b/resources.yaml"}

\* What a resources.yaml may hold; "bad" is a document with a malformed entry.
Contents == {"v1", "v2", "bad"}

\* ResourceList.parse: the parsed list and the token errors of a document.
ResourceListParse(yaml_data) ==
    [resource_list |-> [source |-> yaml_data],
     errors |-> IF yaml_data = "bad" THEN <<"TokenError">> ELSE <<>>]

\* The condition under which load_resource_list parses the file.
MustParse(filepath, last_modified_time) ==
    \/ filepath \notin DOMAIN resource_list_cache
    \/ resource_list_cache[filepath].timestamp > last_modified_time

CachedResourceList(resource_list, timestamp, errors) ==
    [resource_list |-> resource_list, timestamp |-> timestamp, errors |-> errors]

load_resource_list(filepath) ==
    LET last_modified_time == fileTime[filepath]
        hit == filepath \in DOMAIN resource_list_cache
        reparse == MustParse(filepath, last_modified_time)
        p == ResourceListParse(fileContent[filepath])
        entry == IF reparse
                 THEN CachedResourceList(p.resource_list, last_modified_time, p.errors)
                 ELSE resource_list_cache[filepath]
    IN  /\ resource_list_cache' =
            [q \in DOMAIN resource_list_cache \cup {filepath} |->
                IF q = filepath THEN entry ELSE resource_list_cache[q]]
        /\ lastLoad' = [called |-> TRUE, path |-> filepath, hit |-> hit,
                        cachedTimestamp |-> IF hit THEN resource_list_cache[filepath].timestamp
                                                   ELSE 0,
                        mtime |-> last_modified_time,
                        content |-> fileContent[filepath],
                        reparsed |-> reparse,
                        resource_list |-> entry.resource_list,
                        errors |-> entry.errors]
        /\ UNCHANGED <<clock, fileTime, fileContent>>
        /\ UNCHANGED <<treeVars, mainVars, normVars, nameVars, copyVars>>

\* The environment edits a resources.yaml: new content, new change time.
ModifyResourceFile(filepath, content) ==
    /\ clock < MaxClock
    /\ clock' = clock + 1
    /\ fileTime' = [fileTime EXCEPT ![filepath] = clock + 1]
    /\ fileContent' = [fileContent EXCEPT ![filepath] = content]
    /\ UNCHANGED <<resource_list_cache, lastLoad>>
    /\ UNCHANGED <<treeVars, mainVars, normVars, nameVars, copyVars>>

InitCache ==
    /\ clock = 1
    /\ fileTime = [p \in Paths |-> 1]
    /\ fileContent \in [Paths -> Contents]
    /\ resource_list_cache = <<>>
    /\ lastLoad = NoLoad
    /\ TreeIdle /\ MainIdle /\ NormIdle /\ NameIdle /\ CopyIdle

LoadStep == \E p \in Paths : load_resource_list(p)
ModifyStep == \E p \in Paths, c \in Contents : ModifyResourceFile(p, c)

NextCache == LoadStep \/ ModifyStep

SpecCache == InitCache /\ [][NextCache]_vars

\* C1: a load of an already cached path returns the cached list and errors
\* without parsing when the file's time equals the cached timestamp, and parses
\* the file again, returning what it now holds, when the file's time is newer.
C1_CacheCoherence ==
    (lastLoad.called /\ lastLoad.hit) =>
        /\ (lastLoad.mtime = lastLoad.cachedTimestamp => ~lastLoad.reparsed)
        /\ (lastLoad.mtime > lastLoad.cachedTimestamp =>
                /\ lastLoad.reparsed
                /\ lastLoad.resource_list = ResourceListParse(lastLoad.content).resource_list
                /\ lastLoad.errors = ResourceListParse(lastLoad.content).errors
                /\ resource_list_cache[lastLoad.path].timestamp = lastLoad.mtime)

(***************************************************************************)
(* Directory trees: get_oldest_modified_time, get_newest_modified_time     *)
(***************************************************************************)
\* The plugin source tree: its directories always exist (and may be empty),
\* its files exist when they are in present.
Root  == "plugins"
Dirs  == {"plugins", "plugins/d", "plugins/d/e"}
Files == {"plugins/f1", "plugins/d/f2", "plugins/d/e/f3"}
Nodes == Dirs \cup Files

Parent == [n \in Nodes \ {Root} |->
            CASE n = "plugins/f1"     -> "plugins"
              [] n = "plugins/d"      -> "plugins"
              [] n = "plugins/d/f2"   -> "plugins/d"
              [] n = "plugins/d/e"    -> "plugins/d"
              [] n = "plugins/d/e/f3" -> "plugins/d/e"]

\* os.path.join(path, file) for file in os.listdir(path)
ListDir(path) == {n \in (Dirs \cup present) \ {Root} : Parent[n] = path}

IsDir(filepath) == filepath \in Dirs

\* The subtree under a directory, itself included.
RECURSIVE Under(_)
Under(path) ==
    {path} \cup UNION {IF IsDir(n) THEN Under(n) ELSE {n} : n \in ListDir(path)}

RECURSIVE get_oldest_modified_time(_)
get_oldest_modified_time(path) ==
    LET time_list == {IF IsDir(filepath) THEN get_oldest_modified_time(filepath)
                                         ELSE ctime[filepath] : filepath \in ListDir(path)}
    IN  IF time_list = {} THEN 0 ELSE Min(time_list)

\* The same walk for the newest time; the recursive call does not pass ignore on.
RECURSIVE NewestWalk(_, _)
NewestWalk(path, ignore) ==
    LET time_list == {ctime[path]} \cup
            {IF IsDir(filepath) THEN NewestWalk(filepath, {}) ELSE ctime[filepath] :
                filepath \in ListDir(path) \ ignore}
    IN  Max(time_list)

\* The walk that takes a subdirectory's own time instead of descending into it.
get_newest_modified_time_flat(path, ignore) ==
    Max({ctime[path]} \cup {ctime[filepath] : filepath \in ListDir(path) \ ignore})

get_newest_modified_time(path, ignore) == NewestWalk(path, ignore)

\* ---- the environment's changes to the tree
TouchFile(f) ==
    /\ f \in present
    /\ clock < MaxClock
    /\ clock' = clock + 1
    /\ ctime' = [ctime EXCEPT ![f] = clock + 1]
    /\ UNCHANGED <<present, build_py_ctime, out_exists, out_ctime, out_copy,
                   src_exists, FLAG_skip_plugins, lastPublish, oldest_result>>
    /\ UNCHANGED <<cacheVars, mainVars, normVars, nameVars, copyVars>>

\* Creating or removing a file also changes its directory.
CreateFile(f) ==
    /\ f \notin present
    /\ clock < MaxClock
    /\ clock' = clock + 1
    /\ present' = present \cup {f}
    /\ ctime' = [ctime EXCEPT ![f] = clock + 1, ![Parent[f]] = clock + 1]
    /\ UNCHANGED <<build_py_ctime, out_exists, out_ctime, out_copy,
                   src_exists, FLAG_skip_plugins, lastPublish, oldest_result>>
    /\ UNCHANGED <<cacheVars, mainVars, normVars, nameVars, copyVars>>

RemoveFile(f) ==
    /\ f \in present
    /\ clock < MaxClock
    /\ clock' = clock + 1
    /\ present' = present \ {f}
    /\ ctime' = [ctime EXCEPT ![f] = 0, ![Parent[f]] = clock + 1]
    /\ UNCHANGED <<build_py_ctime, out_exists, out_ctime, out_copy,
                   src_exists, FLAG_skip_plugins, lastPublish, oldest_result>>
    /\ UNCHANGED <<cacheVars, mainVars, normVars, nameVars, copyVars>>

\* A call of get_oldest_modified_time on a directory of the tree.
OldestCall(path) ==
    /\ oldest_result' = [called |-> TRUE, path |-> path,
                         file_times |-> {ctime[f] : f \in Under(path) \cap present},
                         result |-> get_oldest_modified_time(path)]
    /\ UNCHANGED <<clock, present, ctime, build_py_ctime, out_exists, out_ctime,
                   out_copy, src_exists, FLAG_skip_plugins, lastPublish>>
    /\ UNCHANGED <<cacheVars, mainVars, normVars, nameVars, copyVars>>

\* The time of the tree's files when the specification starts.
InitTime == 2

InitTree ==
    /\ present \in SUBSET Files
    /\ \E t \in [Files -> 1..InitTime] :
          ctime = [n \in Nodes |-> IF n \in Dirs THEN 1
                                   ELSE IF n \in present THEN t[n] ELSE 0]

InitOldest ==
    /\ clock = InitTime
    /\ InitTree
    /\ build_py_ctime = 0
    /\ out_exists = FALSE
    /\ out_ctime = 0
    /\ out_copy = <<>>
    /\ src_exists = TRUE
    /\ FLAG_skip_plugins = FALSE
    /\ lastPublish = NoPublish
    /\ oldest_result = NoOldest
    /\ CacheIdle /\ MainIdle /\ NormIdle /\ NameIdle /\ CopyIdle

TouchStep  == \E f \in Files : TouchFile(f)
CreateStep == \E f \in Files : CreateFile(f)
RemoveStep == \E f \in Files : RemoveFile(f)
OldestStep == \E d \in Dirs : OldestCall(d)

NextOldest == TouchStep \/ CreateStep \/ RemoveStep \/ OldestStep

SpecOldest == InitOldest /\ [][NextOldest]_vars

\* C10: for a tree that holds at least one file, get_oldest_modified_time returns
\* the least time over all the files of the tree, nested ones included, also when
\* a nested directory is empty; it returns 0 only for a tree with no file.
C10_OldestIsMinimum ==
    oldest_result.called =>
        /\ (oldest_result.file_times # {} =>
                oldest_result.result = Min(oldest_result.file_times))
        /\ (oldest_result.result = 0 => oldest_result.file_times = {})

(***************************************************************************)
(* Plugin publication: publish_calculator_plugins                          *)
(***************************************************************************)
\* shutil.copytree(plugin_source_folder, plugin_output_folder, dirs_exist_ok=True):
\* every file of the source tree is copied, and the output folder's ctime is the
\* time of the copy.
CopyTree ==
    /\ clock' = clock + 1
    /\ out_exists' = TRUE
    /\ out_copy' = [f \in present |-> ctime[f]]
    /\ out_ctime' = clock + 1

\* The generator's own time and the newest time of the source tree.
NewestInput ==
    Max({build_py_ctime, get_newest_modified_time(Root, {})})

ShouldPublish ==
    IF out_exists THEN NewestInput > out_ctime ELSE TRUE

publish_calculator_plugins ==
    LET enabled == src_exists /\ ~FLAG_skip_plugins
        copy == enabled /\ ShouldPublish
    IN  /\ copy => clock < MaxClock
        /\ IF copy THEN CopyTree
                   ELSE UNCHANGED <<clock, out_exists, out_copy, out_ctime>>
        /\ lastPublish' =
             [called |-> TRUE, enabled |-> enabled, out_existed |-> out_exists,
              files_older |-> \A f \in present : ctime[f] < out_ctime,
              build_unchanged |-> build_py_ctime < out_ctime,
              touched |-> {f \in present : ctime[f] > out_ctime},
              copied |-> copy]
        /\ UNCHANGED <<present, ctime, build_py_ctime, src_exists, FLAG_skip_plugins,
                       oldest_result>>
        /\ UNCHANGED <<cacheVars, mainVars, normVars, nameVars, copyVars>>

\* build.py is edited.
TouchBuildPy ==
    /\ clock < MaxClock
    /\ clock' = clock + 1
    /\ build_py_ctime' = clock + 1
    /\ UNCHANGED <<present, ctime, out_exists, out_ctime, out_copy,
                   src_exists, FLAG_skip_plugins, lastPublish, oldest_result>>
    /\ UNCHANGED <<cacheVars, mainVars, normVars, nameVars, copyVars>>

\* Publication starts with no published output; the flag and the existence of
\* the plugin source folder are fixed for a run. Files of the source tree are
\* touched and new ones are created.
InitPlugins ==
    /\ clock = InitTime
    /\ InitTree
    /\ build_py_ctime = 1
    /\ out_exists = FALSE
    /\ out_ctime = 0
    /\ out_copy = <<>>
    /\ src_exists \in BOOLEAN
    /\ FLAG_skip_plugins \in BOOLEAN
    /\ lastPublish = NoPublish
    /\ oldest_result = NoOldest
    /\ CacheIdle /\ MainIdle /\ NormIdle /\ NameIdle /\ CopyIdle

TouchPluginStep == \E f \in Files : TouchFile(f)
NewPluginStep   == \E f \in Files : CreateFile(f)

NextPlugins ==
    publish_calculator_plugins \/ TouchPluginStep \/ NewPluginStep \/ TouchBuildPy

SpecPlugins == InitPlugins /\ [][NextPlugins]_vars

\* C2: with the plugin source folder present, plugins not disabled and an output
\* already published: when every source file is older than the output and
\* build.py is unchanged since, the call copies nothing; when some source file,
\* at any depth, was touched after the publication, the call copies the tree,
\* and the published copy is that of the files as they are.
C2_PluginGating ==
    /\ (lastPublish.called /\ lastPublish.enabled /\ lastPublish.out_existed) =>
          /\ (lastPublish.files_older /\ lastPublish.build_unchanged)
                => ~lastPublish.copied
          /\ lastPublish.touched # {} => lastPublish.copied
    /\ (lastPublish.copied /\ out_ctime = clock) =>
          out_copy = [f \in present |-> ctime[f]]

\* A republication caused by a touch of the most deeply nested file alone.
C2_Witness ==
    /\ lastPublish.called /\ lastPublish.enabled /\ lastPublish.out_existed
    /\ lastPublish.touched = {"plugins/d/e/f3"}
    /\ lastPublish.build_unchanged
    /\ lastPublish.copied

\* A call that skipped the copy because nothing was newer than the output.
C2_WitnessSkip ==
    /\ lastPublish.called /\ lastPublish.enabled /\ lastPublish.out_existed
    /\ lastPublish.files_older /\ lastPublish.build_unchanged
    /\ ~lastPublish.copied

(***************************************************************************)
(* main                                                                    *)
(***************************************************************************)
Calculators == {"A", "B"}

\* What the producers of a run write: output/<calculator>/... for each
\* calculator, and output/<file> for the files of core/.
Targets == Calculators \cup {"core"}

\* calculator_producers(): the producers of every calculator under
\* resource_lists/; it is called with no argument.
calculator_producers == Calculators

\* core_resource_producers(): the copy producers of the files of core/.
core_resource_producers == {"core"}

\* The staleness oracle of build_producer_calls: an output that is missing, or
\* older than its input, is due.
Due(target) ==
    \/ calc_out_time[target] = 0
    \/ calc_src_time[target] > calc_out_time[target]

\* build_producer_calls(producers, ignore): the targets whose producer runs.
build_producer_calls(producers) == {t \in producers : Due(t)}

\* One run of build.py. limit_files and no_index are the parsed arguments.
\* calculator_page_sublist is assigned and printed, and read nowhere else;
\* create_index_page is called nowhere.
main(limit_files, no_index) ==
    LET calculator_page_sublist == IF Len(limit_files) >= 1 THEN limit_files ELSE <<>>
        producers == calculator_producers \cup core_resource_producers
        ran == build_producer_calls(producers)
    IN  /\ clock < MaxClock
        /\ clock' = clock + 1
        /\ FLAG_skip_index' = (no_index \/ Len(limit_files) >= 1)
        /\ calc_out_time' = [t \in Targets |->
                               IF t \in ran THEN clock + 1 ELSE calc_out_time[t]]
        /\ index_time' = index_time
        /\ lastMain' = [called |-> TRUE, limit_files |-> limit_files,
                        calculator_page_sublist |-> calculator_page_sublist,
                        updated |-> ran, index_regenerated |-> FALSE]
        /\ UNCHANGED calc_src_time
        /\ UNCHANGED <<cacheVars, treeVars, normVars, nameVars, copyVars>>

\* A source file of a calculator, or of core/, is edited.
TouchSource(target) ==
    /\ clock < MaxClock
    /\ clock' = clock + 1
    /\ calc_src_time' = [calc_src_time EXCEPT ![target] = clock + 1]
    /\ UNCHANGED <<calc_out_time, index_time, FLAG_skip_index, lastMain>>
    /\ UNCHANGED <<cacheVars, treeVars, normVars, nameVars, copyVars>>

LimitFiles == {<<>>, <<"A">>, <<"B">>, <<"A", "B">>}

\* Any output may be there already, built at time 1 or 2, or be missing.
InitMain ==
    /\ clock = InitTime
    /\ calc_src_time \in [Targets -> 1..InitTime]
    /\ calc_out_time \in [Targets -> 0..InitTime]
    /\ index_time \in 0..1
    /\ FLAG_skip_index = FALSE
    /\ lastMain = NoMain
    /\ CacheIdle /\ TreeIdle /\ NormIdle /\ NameIdle /\ CopyIdle

MainStep == \E l \in LimitFiles, n \in BOOLEAN : main(l, n)
TouchSourceStep == \E t \in Targets : TouchSource(t)

NextMain == MainStep \/ TouchSourceStep

SpecMain == InitMain /\ [][NextMain]_vars

\* C3: a run of main with limit_files = ["A"] produces or updates only files
\* under output/A/, nothing under output/B/, and does not regenerate the index.
C3_LimitFilesOnlyA ==
    (lastMain.called /\ lastMain.limit_files = <<"A">>) =>
        /\ "B" \notin lastMain.updated
        /\ ~lastMain.index_regenerated

(***************************************************************************)
(* Recipe normalizer: the data model                                       *)
(***************************************************************************)
\* A recipe is [recipe_type, output, requirements]; requirements is an
\* OrderedDict, modelled as a sequence of <<key, quantity>> with distinct keys.
ResourceNames == {"A", "B"}
GroupNames    == {"G1", "G2"}
Keys          == ResourceNames \cup GroupNames

\* The largest quantity of a requirement in the inputs.
MaxQty == 2

DictKeys(d) == {d[i][1] : i \in 1..Len(d)}

DictHas(d, k) == k \in DictKeys(d)

\* d[k]
DictGet(d, k) == d[CHOOSE i \in 1..Len(d) : d[i][1] = k][2]

\* del d[k]
DictDel(d, k) == SelectSeq(d, LAMBDA e : e[1] # k)

\* d[k] = v: an existing key keeps its place, a new key goes last.
DictSet(d, k, v) ==
    IF DictHas(d, k)
    THEN [i \in 1..Len(d) |-> IF d[i][1] = k THEN <<k, v>> ELSE d[i]]
    ELSE Append(d, <<k, v>>)

Recipe(recipe_type, output, requirements) ==
    [recipe_type |-> recipe_type, output |-> output, requirements |-> requirements]

(***************************************************************************)
(* fill_default_requirement_groups                                         *)
(***************************************************************************)
\* The replacement of one requirement of the copied key list.
ReplaceRequirement(requirements, requirement) ==
    IF requirement \in DOMAIN requirement_groups
    THEN LET value == DictGet(requirements, requirement)
         IN  DictSet(DictDel(requirements, requirement),
                     requirement_groups[requirement][1], value)
    ELSE requirements

\* The loop over requirement_list, the copy of the keys taken before the loop.
RECURSIVE FillRequirements(_, _, _)
FillRequirements(requirements, requirement_list, n) ==
    IF n > Len(requirement_list) THEN requirements
    ELSE FillRequirements(ReplaceRequirement(requirements, requirement_list[n]),
                          requirement_list, n + 1)

FillRecipe(recipe) ==
    LET requirement_list == [n \in 1..Len(recipe.requirements) |->
                                recipe.requirements[n][1]]
    IN  [recipe EXCEPT !.requirements =
            FillRequirements(recipe.requirements, requirement_list, 1)]

fill_default_requirement_groups ==
    /\ phase = "parsed"
    /\ resources' = [resource \in DOMAIN resources |->
                        [i \in 1..Len(resources[resource]) |->
                            FillRecipe(resources[resource][i])]]
    /\ phase' = "filled"
    /\ UNCHANGED <<clock, requirement_groups, parsed>>
    /\ UNCHANGED <<cacheVars, treeVars, mainVars, nameVars, copyVars>>

\* ---- the inputs
\* Every ordered mapping from distinct keys to quantities 1..MaxQty.
Requirements ==
    UNION {{d \in [1..n -> Keys \X (1..MaxQty)] :
              \A i, j \in 1..n : i # j => d[i][1] # d[j][1]} : n \in 0..Cardinality(Keys)}

\* The member lists a requirement group may have: a first member that is a
\* resource, the other group, or the group itself.
GroupMembers == {<<"A", "B">>, <<"B", "A">>, <<"G2", "A">>, <<"G1", "B">>, <<"A">>}

\* The recipes of the second resource: one with a group requirement, one without.
OtherRecipes == <<Recipe("Crafting", 1, <<<<"G1", 1>>>>),
                  Recipe("Crafting", 2, <<<<"A", 2>>>>)>>

InitGroups ==
    /\ clock = 0
    /\ requirement_groups \in [GroupNames -> GroupMembers]
    /\ \E d \in Requirements :
          resources = [r \in ResourceNames |->
                          IF r = "A" THEN <<Recipe("Crafting", 1, d)>>
                                     ELSE OtherRecipes]
    /\ parsed = resources
    /\ phase = "parsed"
    /\ CacheIdle /\ TreeIdle /\ MainIdle /\ NameIdle /\ CopyIdle

NextGroups == fill_default_requirement_groups

SpecGroups == InitGroups /\ [][NextGroups]_vars

\* The recipes of the resource list, as <<resource, index>>.
RecipeIds == {<<r, i>> \in ResourceNames \X (1..2) :
                r \in DOMAIN resources /\ i <= Len(resources[r])}

\* C4: for every recipe and every requirement of it keyed by a group with
\* members [A, ...] and quantity Q, the recipe has, after the pass, a requirement
\* keyed by A with quantity exactly Q, whatever else the recipe requires.
C4_GroupQuantityKept ==
    phase = "filled" =>
        \A id \in RecipeIds :
            LET before == parsed[id[1]][id[2]].requirements
                after  == resources[id[1]][id[2]].requirements
            IN  \A n \in 1..Len(before) :
                    before[n][1] \in DOMAIN requirement_groups =>
                        LET first == requirement_groups[before[n][1]][1]
                        IN  /\ DictHas(after, first)
                            /\ DictGet(after, first) = before[n][2]

\* C5: after the pass no requirement key of any recipe is the name of a
\* requirement group.
C5_NoGroupKeyLeft ==
    phase = "filled" =>
        \A id \in RecipeIds :
            DictKeys(resources[id[1]][id[2]].requirements)
                \cap DOMAIN requirement_groups = {}

\* C11: the pass leaves every requirement whose key is no group name as it
\* was: the key is still there with the same quantity, also when a group of the
\* same recipe resolves to that key; recipe_type and output of every recipe
\* are unchanged.
C11_PlainRequirementsKept ==
    phase = "filled" =>
        \A id \in RecipeIds :
            LET before == parsed[id[1]][id[2]]
                after  == resources[id[1]][id[2]]
            IN  /\ after.recipe_type = before.recipe_type
                /\ after.output = before.output
                /\ \A n \in 1..Len(before.requirements) :
                      before.requirements[n][1] \notin DOMAIN requirement_groups =>
                          /\ DictHas(after.requirements, before.requirements[n][1])
                          /\ DictGet(after.requirements, before.requirements[n][1])
                                = before.requirements[n][2]

(***************************************************************************)
(* expand_raw_resource                                                     *)
(***************************************************************************)
\* The recipes the pass rewrites: only recipe_type given.
IsRawShorthand_wrongTag(recipe) ==
    /\ recipe.recipe_type = "Raw"
    /\ recipe.output = 0
    /\ Len(recipe.requirements) = 0

IsRawShorthand(recipe) ==
    /\ recipe.recipe_type = "Raw Resource"
    /\ recipe.output = 0
    /\ Len(recipe.requirements) = 0

\* The rewrite that leaves the requirements as they were.
ExpandRecipe_outputOnly(resource, recipe) ==
    IF IsRawShorthand(recipe) THEN [recipe EXCEPT !.output = 1] ELSE recipe

ExpandRecipe(resource, recipe) ==
    IF IsRawShorthand(recipe)
    THEN [recipe EXCEPT !.output = 1, !.requirements = <<<<resource, 0>>>>]
    ELSE recipe

expand_raw_resource ==
    /\ phase = "parsed"
    /\ resources' = [resource \in DOMAIN resources |->
                        [i \in 1..Len(resources[resource]) |->
                            ExpandRecipe(resource, resources[resource][i])]]
    /\ phase' = "expanded"
    /\ UNCHANGED <<clock, requirement_groups, parsed>>
    /\ UNCHANGED <<cacheVars, treeVars, mainVars, nameVars, copyVars>>

\* ---- the inputs
\* The largest declared output of a recipe in the inputs.
MaxOutput == 1

RecipeTypes == {"Raw Resource", "Crafting"}

\* No requirement, or one requirement on a resource.
RawRequirements ==
    {<<>>} \cup {<<<<k, v>>>> : k \in ResourceNames, v \in 1..MaxQty}

RawRecipes ==
    {Recipe(t, o, d) : t \in RecipeTypes, o \in 0..MaxOutput, d \in RawRequirements}

InitRaw ==
    /\ clock = 0
    /\ requirement_groups = <<>>
    /\ \E a1, a2, b1 \in RawRecipes :
          resources = [r \in ResourceNames |->
                          IF r = "A" THEN <<a1, a2>> ELSE <<b1>>]
    /\ parsed = resources
    /\ phase = "parsed"
    /\ CacheIdle /\ TreeIdle /\ MainIdle /\ NameIdle /\ CopyIdle

NextRaw == expand_raw_resource

SpecRaw == InitRaw /\ [][NextRaw]_vars

\* C6 as claimed: every recipe with recipe_type "Raw Resource", output 0 and no
\* requirements is rewritten to output 1 and the single requirement of quantity
\* 1 on the owning resource.
C6_RawExpandedToOne ==
    phase = "expanded" =>
        \A id \in RecipeIds :
            IsRawShorthand(parsed[id[1]][id[2]]) =>
                resources[id[1]][id[2]] =
                    Recipe("Raw Resource", 1, <<<<id[1], 1>>>>)

\* C6 as amended: every recipe with recipe_type "Raw Resource", output 0 and no
\* requirements is rewritten to output 1 and the single requirement of quantity
\* 0 on the owning resource.
C6_RawExpandedToZero ==
    phase = "expanded" =>
        \A id \in RecipeIds :
            (/\ parsed[id[1]][id[2]].recipe_type = "Raw Resource"
             /\ parsed[id[1]][id[2]].output = 0
             /\ parsed[id[1]][id[2]].requirements = <<>>) =>
                /\ resources[id[1]][id[2]].recipe_type = "Raw Resource"
                /\ resources[id[1]][id[2]].output = 1
                /\ resources[id[1]][id[2]].requirements = <<<<id[1], 0>>>>

\* The pass has run over a list in which both resources have a shorthand recipe.
C6_Witness ==
    /\ phase = "expanded"
    /\ parsed["A"][2] = Recipe("Raw Resource", 0, <<>>)
    /\ parsed["B"][1] = Recipe("Raw Resource", 0, <<>>)
    /\ resources["B"][1].requirements = <<<<"B", 0>>>>

\* C7 as claimed: after the pass no recipe with recipe_type "Raw Resource" has
\* empty requirements and none has output 0.
C7_NoEmptyNoZero ==
    phase = "expanded" =>
        \A id \in RecipeIds :
            resources[id[1]][id[2]].recipe_type = "Raw Resource" =>
                /\ resources[id[1]][id[2]].requirements # <<>>
                /\ resources[id[1]][id[2]].output # 0

\* C7 as amended: after the pass no recipe with recipe_type "Raw Resource" has
\* both empty requirements and output 0.
C7_NoEmptyAndZero ==
    phase = "expanded" =>
        \A id \in RecipeIds :
            resources[id[1]][id[2]].recipe_type = "Raw Resource" =>
                ~(/\ resources[id[1]][id[2]].requirements = <<>>
                  /\ resources[id[1]][id[2]].output = 0)

\* The pass has run over a list with a shorthand recipe, a raw recipe of output 0
\* with a requirement, and a raw recipe of output 1 without any.
C7_Witness ==
    /\ phase = "expanded"
    /\ parsed["A"][1] = Recipe("Raw Resource", 0, <<>>)
    /\ parsed["A"][2] = Recipe("Raw Resource", 0, <<<<"B", 1>>>>)
    /\ parsed["B"][1] = Recipe("Raw Resource", 1, <<>>)
    /\ resources["A"][2].output = 0
    /\ resources["B"][1].requirements = <<>>

(***************************************************************************)
(* get_simple_name                                                         *)
(***************************************************************************)
\* Strings are sequences of characters. The characters of the display names:
\* upper and lower case letters, a digit, a space, punctuation and an
\* upper case letter outside ASCII.
Alphabet == {"I", "r", "o", "n", " ", "g", "t", "!", "7", "É"}

\* The characters the pattern [^a-z0-9] does not match.
AZ09 == {"a", "b", "c", "d", "e", "f", "g", "h", "i", "j", "k", "l", "m",
         "n", "o", "p", "q", "r", "s", "t", "u", "v", "w", "x", "y", "z",
         "0", "1", "2", "3", "4", "5", "6", "7", "8", "9"}

\* str.lower() of one character.
LowerChar(c) ==
    CASE c = "I" -> "i"
      [] c = "É" -> "é"
      [] c = "F" -> "f"
      [] OTHER   -> c

\* str.lower()
Lower(str) == [i \in 1..Len(str) |-> LowerChar(str[i])]

\* re.sub(r'[^a-z0-9]', '', str)
StripNonAlnum(str) == SelectSeq(str, LAMBDA c : c \in AZ09)

\* The derivation that leaves out the lower-casing.
DeriveSimpleName_noLower(resource) == StripNonAlnum(resource)

DeriveSimpleName(resource) == StripNonAlnum(Lower(resource))

get_simple_name(resource, custom) ==
    IF custom # <<>> THEN custom ELSE DeriveSimpleName(resource)

GetSimpleNameCall ==
    /\ ~simple_name.called
    /\ simple_name' = [called |-> TRUE,
                       result |-> get_simple_name(resource_name, custom_simplename)]
    /\ UNCHANGED <<clock, resource_name, custom_simplename>>
    /\ UNCHANGED <<cacheVars, treeVars, mainVars, normVars, copyVars>>

\* ---- the inputs
\* The longest display name enumerated, the example aside.
MaxNameLen == 3

IronIngot == <<"I", "r", "o", "n", " ", "I", "n", "g", "o", "t", "!", "!">>

DisplayNames ==
    UNION {[1..n -> Alphabet] : n \in 0..MaxNameLen} \cup {IronIngot}

\* No override, and overrides with characters a derived name never has.
CustomNames == {<<>>, <<"F", "e", "!">>, <<"i", "r", "o", "n">>}

InitName ==
    /\ clock = 0
    /\ resource_name \in DisplayNames
    /\ custom_simplename \in CustomNames
    /\ simple_name = NoName
    /\ CacheIdle /\ TreeIdle /\ MainIdle /\ NormIdle /\ CopyIdle

NextName == GetSimpleNameCall

SpecName == InitName /\ [][NextName]_vars

\* The places of the display name whose lower-cased character is in a-z, 0-9.
KeptPlaces == {i \in 1..Len(resource_name) : LowerChar(resource_name[i]) \in AZ09}

\* The k-th kept place, counting from 1.
KeptPlace(k) ==
    CHOOSE i \in KeptPlaces : Cardinality({j \in KeptPlaces : j <= i}) = k

\* C8: get_simple_name returns the override when one is set; otherwise it
\* returns the display name lower-cased with every character outside a-z, 0-9
\* removed, the others in their order, so that the result holds only a-z and
\* 0-9; "Iron Ingot!!" gives "ironingot".
C8_SimpleName ==
    simple_name.called =>
        IF custom_simplename # <<>>
        THEN simple_name.result = custom_simplename
        ELSE /\ \A k \in 1..Len(simple_name.result) : simple_name.result[k] \in AZ09
             /\ Len(simple_name.result) = Cardinality(KeptPlaces)
             /\ \A k \in 1..Len(simple_name.result) :
                    simple_name.result[k] = LowerChar(resource_name[KeptPlace(k)])
             /\ resource_name = IronIngot =>
                    simple_name.result = <<"i", "r", "o", "n", "i", "n", "g", "o", "t">>

\* The name derived for "Iron Ingot!!" with no override.
C8_Witness ==
    /\ simple_name.called
    /\ resource_name = IronIngot
    /\ custom_simplename = <<>>
    /\ simple_name.result = <<"i", "r", "o", "n", "i", "n", "g", "o", "t">>

(***************************************************************************)
(* producer_copyfile                                                       *)
(***************************************************************************)
CopyPaths == {"core/logo.png", "output/logo.png", "output/other.png"}

Absent == "absent"

FileContents == {"c1", "c2"}

\* The most output paths a call is given.
MaxOutputs == 2

OutputLists == UNION {[1..n -> CopyPaths] : n \in 0..MaxOutputs}

\* The check on the outputs that lets the copy go ahead.
OneOutput_atLeast(output_files) == Len(output_files) >= 1

OneOutput(output_files) == Len(output_files) = 1

\* shutil.copyfile(src, dst): the files afterwards and the error raised.
copyfile(src, dst) ==
    IF files[src] = Absent THEN [files |-> files, raised |-> "FileNotFoundError"]
    ELSE IF src = dst THEN [files |-> files, raised |-> "SameFileError"]
    ELSE [files |-> [files EXCEPT ![dst] = files[src]], raised |-> ""]

producer_copyfile(input_file, output_files) ==
    LET done == IF ~OneOutput(output_files)
                THEN [files |-> files, raised |-> "ValueError"]
                ELSE copyfile(input_file, output_files[1])
    IN  /\ files' = done.files
        /\ lastCopy' = [called |-> TRUE, input_file |-> input_file,
                        output_files |-> output_files, raised |-> done.raised,
                        before |-> files, after |-> done.files]
        /\ UNCHANGED clock
        /\ UNCHANGED <<cacheVars, treeVars, mainVars, normVars, nameVars>>

\* The environment writes or removes a file; lastCopy describes a call only
\* while the files are as the call left them.
WriteFile(path, content) ==
    /\ files[path] # content
    /\ files' = [files EXCEPT ![path] = content]
    /\ lastCopy' = NoCopy
    /\ UNCHANGED clock
    /\ UNCHANGED <<cacheVars, treeVars, mainVars, normVars, nameVars>>

InitCopy ==
    /\ clock = 0
    /\ files \in [CopyPaths -> FileContents \cup {Absent}]
    /\ lastCopy = NoCopy
    /\ CacheIdle /\ TreeIdle /\ MainIdle /\ NormIdle /\ NameIdle

CopyStep == \E i \in CopyPaths, o \in OutputLists : producer_copyfile(i, o)
WriteStep == \E p \in CopyPaths, c \in FileContents \cup {Absent} : WriteFile(p, c)

NextCopy == CopyStep \/ WriteStep

SpecCopy == InitCopy /\ [][NextCopy]_vars

\* C9: producer_copyfile given a list of output paths whose length is not 1
\* raises an error and leaves every file as it was; given exactly one output
\* path it copies the input file to that path, and touches no other file.
C9_CopyArity ==
    lastCopy.called =>
        /\ Len(lastCopy.output_files) # 1 =>
              /\ lastCopy.raised = "ValueError"
              /\ lastCopy.after = lastCopy.before
        /\ (Len(lastCopy.output_files) = 1
            /\ lastCopy.before[lastCopy.input_file] # Absent) =>
              /\ lastCopy.raised # "ValueError"
              /\ lastCopy.after[lastCopy.output_files[1]] =
                    lastCopy.before[lastCopy.input_file]
              /\ \A p \in CopyPaths \ {lastCopy.output_files[1]} :
                    lastCopy.after[p] = lastCopy.before[p]

\* A call with two output paths, whose first is a file that differs from the
\* input: it raised and the file is as before.
C9_Witness ==
    /\ lastCopy.called
    /\ Len(lastCopy.output_files) = 2
    /\ lastCopy.input_file = "core/logo.png"
    /\ lastCopy.output_files[1] = "output/logo.png"
    /\ lastCopy.before["core/logo.png"] = "c1"
    /\ lastCopy.before["output/logo.png"] = "c2"
    /\ lastCopy.raised = "ValueError"
    /\ files = lastCopy.before

=============================================================================
